---------------------------- MODULE Spec2Model ----------------------------
(***************************************************************************)
(* Model of suggest/cursorcontext.go (gocode): the backward token walk     *)
(* that classifies the context of the editing cursor.                      *)
(*                                                                         *)
(* The lexer (go/scanner) is outside the file; the model starts from what  *)
(* new_token_iterator hands over: the sequence of tokens that start before *)
(* the cursor and the distance `off` from the start of the last one to the *)
(* cursor.  Text is modelled as a sequence of one-character strings, so    *)
(* that slicing (path[1:off], partial[:off]) and concatenation are the     *)
(* operations the code performs.                                           *)
(*                                                                         *)
(* token_index is the Go (0-based) index; tokens[token_index + 1] is the   *)
(* token it designates in the 1-based TLA+ sequence.                       *)
(***************************************************************************)
EXTENDS Integers, Sequences, FiniteSets, TLC

VARIABLES
    tokens,       \* token_iterator.tokens
    off,          \* the int returned by new_token_iterator
    token_index,  \* token_iterator.token_index
    pc,           \* position in the code
    entry,        \* the function the run was started on
    start,        \* the read index that function was started with
    skipRet,      \* where skip_to_left returns to
    left, right,  \* skip_to_left's parameters
    balance,      \* skip_to_left's local
    ok,           \* bool returned by the last skip_to_left
    orig, prev,   \* extract_go_expr's locals
    rejected,     \* index of the token extract_go_expr broke its loop on, or -1
    path,         \* deduce_cursor_context_helper's local
    result        \* the returned (cursorContext, string, string)

vars == <<tokens, off, token_index, pc, entry, start, skipRet, left, right, balance,
          ok, orig, prev, rejected, path, result>>

-----------------------------------------------------------------------------
(* Text *)

lit_foo    == <<"f", "o", "o">>
lit_Bar    == <<"B", "a", "r">>
lit_Ba     == <<"B", "a">>
lit_Point  == <<"P", "o", "i", "n", "t">>
lit_pkg    == <<"p", "k", "g">>
lit_X      == <<"X">>
lit_Y      == <<"Y">>
lit_a      == <<"a">>
lit_b      == <<"b">>
lit_C      == <<"C">>
lit_1      == <<"1">>
lit_path   == <<"f", "o", "o", "/", "b">>
\* the string literal "foo/b" with and without its closing quote
lit_quoted == <<"\"">> \o lit_path \o <<"\"">>
lit_open   == <<"\"">> \o lit_path
lit_str    == <<"\"", "s", "\"">>

\* token.Token.String() for the kinds that carry no literal
TokString(tok) ==
    CASE tok = "PERIOD"    -> <<".">>
      [] tok = "COMMA"     -> <<",">>
      [] tok = "LBRACE"    -> <<"{">>
      [] tok = "RBRACE"    -> <<"}">>
      [] tok = "LPAREN"    -> <<"(">>
      [] tok = "RPAREN"    -> <<")">>
      [] tok = "LBRACK"    -> <<"[">>
      [] tok = "RBRACK"    -> <<"]">>
      [] tok = "SEMICOLON" -> <<";">>
      [] tok = "ASSIGN"    -> <<"=">>
      [] tok = "COLON"     -> <<":">>
      [] tok = "IMPORT"    -> <<"i", "m", "p", "o", "r", "t">>
      [] tok = "TYPE"      -> <<"t", "y", "p", "e">>
      [] tok = "CONST"     -> <<"c", "o", "n", "s", "t">>
      [] tok = "VAR"       -> <<"v", "a", "r">>
      [] tok = "FUNC"      -> <<"f", "u", "n", "c">>
      [] tok = "PACKAGE"   -> <<"p", "a", "c", "k", "a", "g", "e">>
      [] OTHER             -> <<"?">>

\* token.Token.IsLiteral()
IsLiteral(tok) == tok \in {"IDENT", "INT", "STRING"}

\* token_item.literal
literal(item) == IF IsLiteral(item.tok) THEN item.lit ELSE TokString(item.tok)

T(tok)      == [tok |-> tok, lit |-> <<>>]
Id(lit)     == [tok |-> "IDENT", lit |-> lit]
Str(lit)    == [tok |-> "STRING", lit |-> lit]
IntLit(lit) == [tok |-> "INT", lit |-> lit]

-----------------------------------------------------------------------------
(* token_iterator *)

\* the token at Go index i
At(i) == tokens[i + 1]

InRange(i) == i >= 0 /\ i < Len(tokens)

\* token().tok at index i; indexing outside the slice panics in Go
Tok(i) == IF InRange(i) THEN At(i).tok ELSE "<out of range>"

\* token().literal() at index i
Lit(i) == IF InRange(i) THEN literal(At(i)) ELSE <<>>

\* token_iterator.go_back: whether it moves
CanGoBack_StopsAtOne(i) == i > 1
CanGoBack(i) == i > 0

bracket_pairs_map(r) ==
    CASE r = "RPAREN" -> "LPAREN"
      [] r = "RBRACK" -> "LBRACK"
      [] r = "RBRACE" -> "LBRACE"
      [] OTHER        -> "ILLEGAL"

RECURSIVE token_items_to_string(_)
token_items_to_string(items) ==
    IF items = <<>> THEN <<>>
    ELSE literal(Head(items)) \o token_items_to_string(Tail(items))

\* tokens[a:b] of Go
Slice(a, b) == SubSeq(tokens, a + 1, b)

unknownContext          == "unknown"
importContext           == "import"
selectContext           == "select"
compositeLiteralContext == "compositeLiteral"

Ret(ctx, expr, partial) == [ctx |-> ctx, expr |-> expr, partial |-> partial]

-----------------------------------------------------------------------------
(* skip_to_left, skip_to_balanced_pair, skip_to_left_curly *)

\* the switch of skip_to_left's loop
NextBalance_NoNesting(bal, t, l, r) == IF t = l THEN bal - 1 ELSE bal
NextBalance(bal, t, l, r) ==
    CASE t = r -> bal + 1
      [] t = l -> bal - 1
      [] OTHER -> bal

SkipBalancedPair ==
    /\ pc = "skip_to_balanced_pair"
    /\ right' = Tok(token_index)
    /\ left' = bracket_pairs_map(Tok(token_index))
    /\ pc' = "skip_to_left"
    /\ UNCHANGED <<tokens, off, token_index, entry, start, skipRet, balance, ok,
                   orig, prev, rejected, path, result>>

SkipLeftCurly ==
    /\ pc = "skip_to_left_curly"
    /\ left' = "LBRACE"
    /\ right' = "RBRACE"
    /\ pc' = "skip_to_left"
    /\ UNCHANGED <<tokens, off, token_index, entry, start, skipRet, balance, ok,
                   orig, prev, rejected, path, result>>

SkipToLeft ==
    /\ pc = "skip_to_left"
    /\ IF Tok(token_index) = left
       THEN /\ ok' = TRUE
            /\ pc' = skipRet
            /\ UNCHANGED balance
       ELSE /\ balance' = 1
            /\ pc' = "skip_loop"
            /\ UNCHANGED ok
    /\ UNCHANGED <<tokens, off, token_index, entry, start, skipRet, left, right,
                   orig, prev, rejected, path, result>>

SkipStep ==
    /\ pc = "skip_loop"
    /\ IF ~CanGoBack(token_index)
       THEN /\ ok' = FALSE
            /\ pc' = skipRet
            /\ UNCHANGED <<token_index, balance>>
       ELSE LET nb == NextBalance(balance, Tok(token_index - 1), left, right)
            IN  /\ token_index' = token_index - 1
                /\ balance' = nb
                /\ IF nb = 0
                   THEN ok' = TRUE /\ pc' = skipRet
                   ELSE pc' = "skip_loop" /\ UNCHANGED ok
    /\ UNCHANGED <<tokens, off, entry, start, skipRet, left, right,
                   orig, prev, rejected, path, result>>

-----------------------------------------------------------------------------
(* extract_struct_type *)

\* the function after skip_to_left_curly has returned s, with the read index
\* at i: the index it ends on and the string it returns
StructType_Unqualified(i, s) ==
    IF ~s THEN [idx |-> i, res |-> <<>>]
    ELSE IF ~CanGoBack(i) THEN [idx |-> i, res |-> <<>>]
    ELSE IF Tok(i - 1) # "IDENT" THEN [idx |-> i - 1, res |-> <<>>]
    ELSE [idx |-> i - 1, res |-> Lit(i - 1)]
StructType(i, s) ==
    IF ~s THEN [idx |-> i, res |-> <<>>]
    ELSE IF ~CanGoBack(i) THEN [idx |-> i, res |-> <<>>]
    ELSE IF Tok(i - 1) # "IDENT" THEN [idx |-> i - 1, res |-> <<>>]
    ELSE LET b == Lit(i - 1) IN
         IF ~CanGoBack(i - 1) THEN [idx |-> i - 1, res |-> b]
         ELSE IF Tok(i - 2) # "PERIOD" THEN [idx |-> i - 2, res |-> b]
         ELSE IF ~CanGoBack(i - 2) THEN [idx |-> i - 2, res |-> b]
         ELSE IF Tok(i - 3) # "IDENT" THEN [idx |-> i - 3, res |-> b]
         ELSE [idx |-> i - 3, res |-> Lit(i - 3) \o <<".">> \o b]

StructStart ==
    /\ pc = "extract_struct_type"
    /\ pc' = "skip_to_left_curly"
    /\ skipRet' = "struct_rest"
    /\ UNCHANGED <<tokens, off, token_index, entry, start, left, right, balance, ok,
                   orig, prev, rejected, path, result>>

StructRest ==
    /\ pc = "struct_rest"
    /\ LET r == StructType(token_index, ok)
       IN  /\ token_index' = r.idx
           /\ result' = [result EXCEPT !.expr = r.res]
    /\ pc' = "done"
    /\ UNCHANGED <<tokens, off, entry, start, skipRet, left, right, balance, ok,
                   orig, prev, rejected, path>>

-----------------------------------------------------------------------------
(* extract_go_expr *)

\* the switch of extract_go_expr: whether token kind cur, read with prev to
\* its right, keeps the loop going
ExprAccepts_AnyIdent(cur, p) ==
    CASE cur = "PERIOD" -> p = "IDENT"
      [] cur = "IDENT"  -> TRUE
      [] cur = "RBRACE" -> p = "PERIOD"
      [] cur \in {"RPAREN", "RBRACK"} -> p \in {"PERIOD", "LBRACK", "LPAREN"}
      [] OTHER -> FALSE
ExprAccepts(cur, p) ==
    CASE cur = "PERIOD" -> p = "IDENT"
      [] cur = "IDENT"  -> p \in {"PERIOD", "LBRACK", "LBRACE", "LPAREN"}
      [] cur = "RBRACE" -> p = "PERIOD"
      [] cur \in {"RPAREN", "RBRACK"} -> p \in {"PERIOD", "LBRACK", "LPAREN"}
      [] OTHER -> FALSE

\* the return after the loop: tokens[token_index+1 : orig]
ExprText_FromIndex(i, o) == token_items_to_string(Slice(i, o))
ExprText(i, o) == token_items_to_string(Slice(i + 1, o))

ExprStart ==
    /\ pc = "extract_go_expr"
    /\ orig' = token_index
    /\ prev' = Tok(token_index)
    /\ rejected' = -1
    /\ pc' = "expr_loop"
    /\ UNCHANGED <<tokens, off, token_index, entry, start, skipRet, left, right,
                   balance, ok, path, result>>

ExprStep ==
    /\ pc = "expr_loop"
    /\ IF ~CanGoBack(token_index)
       THEN /\ result' = [result EXCEPT
                             !.expr = token_items_to_string(Slice(0, orig))]
            /\ pc' = "done"
            /\ UNCHANGED <<token_index, prev, rejected, skipRet>>
       ELSE LET i == token_index - 1
                t == Tok(i)
            IN  /\ token_index' = i
                /\ IF ~ExprAccepts(t, prev)
                   THEN /\ rejected' = i
                        /\ result' = [result EXCEPT !.expr = ExprText(i, orig)]
                        /\ pc' = "done"
                        /\ UNCHANGED <<prev, skipRet>>
                   ELSE IF t \in {"RBRACE", "RPAREN", "RBRACK"}
                   THEN /\ pc' = "skip_to_balanced_pair"
                        /\ skipRet' = "expr_resume"
                        /\ UNCHANGED <<prev, rejected, result>>
                   ELSE /\ prev' = t
                        /\ pc' = "expr_loop"
                        /\ UNCHANGED <<rejected, result, skipRet>>
    /\ UNCHANGED <<tokens, off, entry, start, left, right, balance, ok, orig, path>>

\* after skip_to_balanced_pair: prev = this.token().tok
ExprResume ==
    /\ pc = "expr_resume"
    /\ prev' = Tok(token_index)
    /\ pc' = "expr_loop"
    /\ UNCHANGED <<tokens, off, token_index, entry, start, skipRet, left, right,
                   balance, ok, orig, rejected, path, result>>

-----------------------------------------------------------------------------
(* deduce_cursor_context_helper *)

\* len(iter.tokens) == 0
NoTokens_Unchecked == FALSE
NoTokens == Len(tokens) = 0

\* the negation of `off >= len(path)`: the cursor is inside the string
InsideString(o, p) == o < Len(p)

\* a slice expression out of range panics
Panic == <<"<panic>">>

\* path[1:off]
ImportPath_WithQuote(p, o) == SubSeq(p, 1, o)
ImportPath(p, o) == IF o < 1 \/ o > Len(p) THEN Panic ELSE SubSeq(p, 2, o)

\* partial[:off]
Truncate(p, o) == IF o > Len(p) THEN Panic ELSE SubSeq(p, 1, o)

\* the negation of `off > len(tok.literal())`
AtIdentifier_Always(o, l) == TRUE
AtIdentifier(o, l) == o <= Len(l)

\* the kinds of the switch that look for a partial identifier
PartialKinds == {"IDENT", "TYPE", "CONST", "VAR", "FUNC", "PACKAGE"}

\* one iteration of the import loop with the read index at i: the index it
\* ends on and how it ends
ImportIter(i) ==
    IF ~CanGoBack(i) THEN [idx |-> i, out |-> "break"]
    ELSE LET i1 == i - 1
             alias == Tok(i1) \in {"IDENT", "PERIOD"}
         IN
         IF alias /\ ~CanGoBack(i1) THEN [idx |-> i1, out |-> "break"]
         ELSE LET i2 == IF alias THEN i1 - 1 ELSE i1 IN
              IF Tok(i2) = "SEMICOLON"
              THEN IF ~CanGoBack(i2) THEN [idx |-> i2, out |-> "break"]
                   ELSE IF Tok(i2 - 1) # "STRING"
                        THEN [idx |-> i2 - 1, out |-> "break"]
                        ELSE [idx |-> i2 - 1, out |-> "continue"]
              ELSE IF Tok(i2) = "LPAREN" /\ ~CanGoBack(i2)
                   THEN [idx |-> i2, out |-> "break"]
              ELSE LET i3 == IF Tok(i2) = "LPAREN" THEN i2 - 1 ELSE i2 IN
                   IF Tok(i3) # "IMPORT"
                   THEN [idx |-> i3, out |-> "break"]
                   ELSE [idx |-> i3, out |-> "return"]

DeduceStart ==
    /\ pc = "deduce"
    /\ IF NoTokens
       THEN /\ result' = Ret(unknownContext, <<>>, <<>>)
            /\ pc' = "done"
            /\ UNCHANGED path
       ELSE IF Tok(token_index) = "STRING"
       THEN /\ path' = Lit(token_index)
            /\ IF ~InsideString(off, path')
               THEN /\ result' = Ret(unknownContext, <<>>, <<>>)
                    /\ pc' = "done"
               ELSE /\ pc' = "import_loop"
                    /\ UNCHANGED result
       ELSE /\ pc' = "partial"
            /\ UNCHANGED <<path, result>>
    /\ UNCHANGED <<tokens, off, token_index, entry, start, skipRet, left, right,
                   balance, ok, orig, prev, rejected>>

ImportStep ==
    /\ pc = "import_loop"
    /\ LET r == ImportIter(token_index)
       IN  /\ token_index' = r.idx
           /\ CASE r.out = "continue" ->
                     pc' = "import_loop" /\ UNCHANGED result
                [] r.out = "return" ->
                     /\ result' = Ret(importContext, <<>>, ImportPath(path, off))
                     /\ pc' = "done"
                [] OTHER ->
                     /\ result' = Ret(unknownContext, <<>>, <<>>)
                     /\ pc' = "done"
    /\ UNCHANGED <<tokens, off, entry, start, skipRet, left, right, balance, ok,
                   orig, prev, rejected, path>>

DeducePartial ==
    /\ pc = "partial"
    /\ IF Tok(token_index) \in PartialKinds
       THEN IF Tok(token_index) = "IDENT" /\ ~AtIdentifier(off, Lit(token_index))
            THEN /\ result' = Ret(unknownContext, <<>>, <<>>)
                 /\ pc' = "done"
                 /\ UNCHANGED token_index
            ELSE LET partial == IF Tok(token_index) = "IDENT"
                                THEN Truncate(Lit(token_index), off)
                                ELSE Lit(token_index)
                 IN  /\ result' = Ret(unknownContext, <<>>, partial)
                     /\ IF ~CanGoBack(token_index)
                        THEN pc' = "done" /\ UNCHANGED token_index
                        ELSE pc' = "dispatch" /\ token_index' = token_index - 1
       ELSE /\ result' = Ret(unknownContext, <<>>, <<>>)
            /\ pc' = "dispatch"
            /\ UNCHANGED token_index
    /\ UNCHANGED <<tokens, off, entry, start, skipRet, left, right, balance, ok,
                   orig, prev, rejected, path>>

DeduceDispatch ==
    /\ pc = "dispatch"
    /\ CASE Tok(token_index) = "PERIOD" ->
              /\ result' = [result EXCEPT !.ctx = selectContext]
              /\ pc' = "extract_go_expr"
         [] Tok(token_index) \in {"COMMA", "LBRACE"} ->
              /\ result' = [result EXCEPT !.ctx = compositeLiteralContext]
              /\ pc' = "extract_struct_type"
         [] OTHER ->
              /\ pc' = "done"
              /\ UNCHANGED result
    /\ UNCHANGED <<tokens, off, token_index, entry, start, skipRet, left, right,
                   balance, ok, orig, prev, rejected, path>>

-----------------------------------------------------------------------------
(* Inputs *)

MaxLen == 3

\* all sequences over S of length at most n
Seqs(S, n) == UNION {[1..k -> S] : k \in 0..n}

\* cursor distances from the start of the last token: inside it, at its end,
\* and after whitespace behind it
Offs(item) ==
    IF item.tok \in PartialKinds \cup {"STRING"}
    THEN LET n == Len(literal(item)) IN {1, n - 1, n, n + 1} \ {0}
    ELSE {1}

Alphabet ==
    {Id(lit_a), Str(lit_str), T("PERIOD"), T("COMMA"), T("LBRACE"),
     T("RBRACE"), T("LPAREN"), T("RPAREN"), T("LBRACK"), T("RBRACK"),
     T("SEMICOLON"), T("IMPORT"), T("TYPE"), T("ASSIGN")}

\* what the last token before the cursor may be besides
LastAlphabet ==
    Alphabet \cup {Id(lit_Ba), Str(lit_open), Str(lit_quoted), T("CONST"),
                   T("VAR"), T("FUNC"), T("PACKAGE")}

Examples ==
    { <<T("IMPORT"), Str(lit_open)>>,
      <<T("IMPORT"), Str(lit_quoted)>>,
      <<Id(lit_foo), T("PERIOD"), Id(lit_Bar), T("PERIOD"), Id(lit_Ba)>>,
      <<Id(lit_Point), T("LBRACE"), Id(lit_X), T("COLON"), IntLit(lit_1),
        T("COMMA"), Id(lit_Y)>>,
      <<Id(lit_pkg), T("PERIOD"), Id(lit_Point), T("LBRACE")>>,
      <<Id(lit_a), T("PERIOD"), Id(lit_b), T("PERIOD"), Id(lit_C),
        T("LBRACE")>>,
      <<Id(lit_a), T("PERIOD"), T("TYPE")>> }

GeneralInputs ==
    {<<>>} \cup {s \o <<l>> : s \in Seqs(Alphabet, MaxLen - 1), l \in LastAlphabet}

\* the state a call of fn starts in: the iterator over toks with its read
\* index at i
Started(toks, fn, i, o) ==
    /\ tokens = toks
    /\ off = o
    /\ token_index = i
    /\ entry = fn
    /\ start = i
    /\ pc = fn
    /\ skipRet = "done"
    /\ left = "ILLEGAL"
    /\ right = "ILLEGAL"
    /\ balance = 0
    /\ ok = FALSE
    /\ orig = 0
    /\ prev = "ILLEGAL"
    /\ rejected = -1
    /\ path = <<>>
    /\ result = Ret("none", <<>>, <<>>)

\* new_token_iterator: the read index on the last token, off from its start
Deduce(toks) ==
    \E o \in (IF toks = <<>> THEN {1} ELSE Offs(toks[Len(toks)])) :
        Started(toks, "deduce", Len(toks) - 1, o)

Init == \E toks \in GeneralInputs \cup Examples : Deduce(toks)

Next ==
    \/ DeduceStart
    \/ ImportStep
    \/ DeducePartial
    \/ DeduceDispatch
    \/ ExprStart
    \/ ExprStep
    \/ ExprResume
    \/ StructStart
    \/ StructRest
    \/ SkipBalancedPair
    \/ SkipLeftCurly
    \/ SkipToLeft
    \/ SkipStep

Spec == Init /\ [][Next]_vars

-----------------------------------------------------------------------------
(* skip_to_balanced_pair called on a closing bracket of a properly nested  *)
(* token sequence                                                          *)

MaxNest == 6

Openers == {"LPAREN", "LBRACK", "LBRACE"}
Closers == {"RPAREN", "RBRACK", "RBRACE"}

\* the closing bracket that closes opener o in Go's syntax
SyntacticCloser(o) ==
    CASE o = "LPAREN" -> "RPAREN"
      [] o = "LBRACK" -> "RBRACK"
      [] o = "LBRACE" -> "RBRACE"

\* Left-to-right scan of s from position k with the stack of the positions
\* of the openers still open: whether s is properly nested, and the
\* position of each closer's opener.
RECURSIVE NestScan(_, _, _, _)
NestScan(s, k, stack, m) ==
    IF k > Len(s) THEN [nested |-> stack = <<>>, opener |-> m]
    ELSE IF s[k].tok \in Openers
    THEN NestScan(s, k + 1, <<k>> \o stack, m)
    ELSE IF s[k].tok \in Closers
    THEN IF stack # <<>> /\ SyntacticCloser(s[Head(stack)].tok) = s[k].tok
         THEN NestScan(s, k + 1, Tail(stack), m @@ (k :> Head(stack)))
         ELSE [nested |-> FALSE, opener |-> m]
    ELSE NestScan(s, k + 1, stack, m)

ProperlyNested(s) == NestScan(s, 1, <<>>, <<>>).nested

\* Go index of the opener that closes at Go index i
MatchingOpener(s, i) == NestScan(s, 1, <<>>, <<>>).opener[i + 1] - 1

BracketAlphabet ==
    {T("LPAREN"), T("RPAREN"), T("LBRACK"), T("RBRACK"), T("LBRACE"),
     T("RBRACE"), Id(lit_a)}

NestedInputs == {s \in Seqs(BracketAlphabet, MaxNest) : ProperlyNested(s)}

InitSkip ==
    \E toks \in NestedInputs :
        \E i \in 0..(Len(toks) - 1) :
            /\ toks[i + 1].tok \in Closers
            /\ Started(toks, "skip_to_balanced_pair", i, 1)

NextSkip ==
    \/ SkipBalancedPair
    \/ SkipToLeft
    \/ SkipStep

SpecSkip == InitSkip /\ [][NextSkip]_vars

\* C6: on a properly nested token sequence, skip_to_balanced_pair called on a
\* closing bracket returns true with the read index on the opening bracket
\* that syntactically matches that closer.
C6_BalanceCorrectness ==
    (entry = "skip_to_balanced_pair" /\ pc = "done" /\ ProperlyNested(tokens))
        => /\ ok = TRUE
           /\ token_index = MatchingOpener(tokens, start)

\* a closer whose opener lies behind a nested pair of the same kind and a
\* pair of another kind has been matched
C6_Witness ==
    /\ entry = "skip_to_balanced_pair"
    /\ pc = "done"
    /\ tokens = <<T("LPAREN"), T("LPAREN"), T("LBRACK"), T("RBRACK"),
                  T("RPAREN"), T("RPAREN")>>
    /\ start = 5
    /\ ok = TRUE
    /\ token_index = 0

-----------------------------------------------------------------------------
(* extract_go_expr and extract_struct_type called on any token sequence    *)

MaxExprLen == 4

ExprAlphabet ==
    {Id(lit_a), T("PERIOD"), T("COMMA"), T("LPAREN"), T("RPAREN"),
     T("LBRACK"), T("RBRACK"), T("LBRACE"), T("RBRACE"), T("ASSIGN")}

\* extract_go_expr is started on any token; extract_struct_type, as its
\* caller does, on a comma or an opening brace
InitExtract ==
    \E toks \in Seqs(ExprAlphabet, MaxExprLen) :
        \E i \in 0..(Len(toks) - 1) :
            \/ Started(toks, "extract_go_expr", i, 1)
            \/ /\ toks[i + 1].tok \in {"COMMA", "LBRACE"}
               /\ Started(toks, "extract_struct_type", i, 1)

NextExtract ==
    \/ ExprStart
    \/ ExprStep
    \/ ExprResume
    \/ StructStart
    \/ StructRest
    \/ SkipBalancedPair
    \/ SkipLeftCurly
    \/ SkipToLeft
    \/ SkipStep

SpecExtract == InitExtract /\ [][NextExtract]_vars

\* the literals of the tokens at Go indexes a..b-1 of s, one after the other
RECURSIVE JoinLiterals(_, _, _)
JoinLiterals(s, a, b) ==
    IF a >= b THEN <<>>
    ELSE JoinLiterals(s, a, b - 1)
            \o (IF s[b].tok \in {"IDENT", "INT", "STRING"}
                THEN s[b].lit ELSE TokString(s[b].tok))

\* C7: the text extract_go_expr returns is the concatenation, in order, of
\* the literals of the tokens k..start-1 for some k: it ends just before the
\* token the extractor was started on and leaves out the token a rule
\* rejected.
C7_SubstringProperty ==
    (entry = "extract_go_expr" /\ pc = "done")
        => \E k \in 0..start :
               /\ result.expr = JoinLiterals(tokens, k, start)
               /\ rejected # -1 => k > rejected

\* a call that skipped a bracket pair and then stopped on a rejected token
C7_Witness ==
    /\ entry = "extract_go_expr"
    /\ pc = "done"
    /\ tokens = <<T("ASSIGN"), T("LPAREN"), T("RPAREN"), T("PERIOD")>>
    /\ start = 3
    /\ rejected = 0
    /\ result.expr = <<"(", ")">>

\* Left-to-right scan of s[k..n] with the stack of the positions of the
\* opening braces still open: the Go index of the innermost opening brace
\* that encloses position n, or -1.
RECURSIVE BraceScan(_, _, _, _)
BraceScan(s, k, n, stack) ==
    IF k > n THEN (IF stack = <<>> THEN -1 ELSE Head(stack) - 1)
    ELSE IF s[k].tok = "LBRACE" THEN BraceScan(s, k + 1, n, <<k>> \o stack)
    ELSE IF s[k].tok = "RBRACE" /\ stack # <<>>
    THEN BraceScan(s, k + 1, n, Tail(stack))
    ELSE BraceScan(s, k + 1, n, stack)

\* for the token at Go index i
EnclosingBrace(s, i) == BraceScan(s, 1, i + 1, <<>>)

\* C10: a skip_to_left that finds no opener returns false with the read
\* index at 0; extract_go_expr then returns the whole prefix before the token
\* it was started on, and extract_struct_type returns the empty string when
\* no opening brace encloses its start.
C10_BalanceFailureNotFatal ==
    /\ (pc \in {"expr_resume", "struct_rest"} /\ ~ok) => token_index = 0
    /\ (entry = "extract_go_expr" /\ pc = "done" /\ left # "ILLEGAL" /\ ~ok)
          => result.expr = JoinLiterals(tokens, 0, start)
    /\ (entry = "extract_struct_type" /\ pc = "done"
            /\ EnclosingBrace(tokens, start) = -1)
          => result.expr = <<>>

\* extract_go_expr accepted a `)` that has no `(` before it
C10_Witness ==
    /\ entry = "extract_go_expr"
    /\ pc = "done"
    /\ tokens = <<T("LBRACK"), T("ASSIGN"), T("RPAREN"), T("PERIOD")>>
    /\ start = 3
    /\ ~ok
    /\ token_index = 0
    /\ result.expr = <<"[", "=", ")">>

-----------------------------------------------------------------------------
(* deduce_cursor_context_helper with the cursor in a string                *)

MaxImportLen == 5

ImportAlphabet ==
    {T("IMPORT"), T("LPAREN"), Str(lit_str), T("SEMICOLON"), Id(lit_a),
     T("PERIOD"), T("ASSIGN")}

ImportInputs ==
    {s \o <<Str(lit_str)>> : s \in Seqs(ImportAlphabet, MaxImportLen)}

InitImport == \E toks \in ImportInputs : Deduce(toks)

NextImport ==
    \/ DeduceStart
    \/ ImportStep

SpecImport == InitImport /\ [][NextImport]_vars

IsAlias(t) == t.tok \in {"IDENT", "PERIOD"}

\* s[j..n-1] is a run of import entries `[alias] string ;` followed by the
\* optional alias of the string at n
RECURSIVE ImportEntries(_, _, _)
ImportEntries(s, j, n) ==
    \/ j = n
    \/ j = n - 1 /\ IsAlias(s[j])
    \/ /\ j + 1 < n
       /\ s[j].tok = "STRING"
       /\ s[j + 1].tok = "SEMICOLON"
       /\ ImportEntries(s, j + 2, n)
    \/ /\ j + 2 < n
       /\ IsAlias(s[j])
       /\ s[j + 1].tok = "STRING"
       /\ s[j + 2].tok = "SEMICOLON"
       /\ ImportEntries(s, j + 3, n)

\* the last token of s is a path of an import declaration: `import` or
\* `import (`, then the entries
InImportDecl(s) ==
    LET n == Len(s) IN
    \E k \in 1..(n - 1) :
        /\ s[k].tok = "IMPORT"
        /\ \/ ImportEntries(s, k + 1, n)
           \/ k + 1 < n /\ s[k + 1].tok = "LPAREN" /\ ImportEntries(s, k + 2, n)

Last == tokens[Len(tokens)]

Returned == entry = "deduce" /\ pc = "done"

\* C9: with the cursor strictly inside a string, the classifier returns
\* (import, "", literal[1:off]) when the string is preceded by `import` or
\* `import (`, any number of entries `[alias] string ;` and an optional
\* alias, and (unknown, "", "") in every other case.
C9_GroupedImports ==
    (Returned /\ tokens # <<>> /\ Last.tok = "STRING" /\ off < Len(Last.lit))
        => IF InImportDecl(tokens)
           THEN result = Ret(importContext, <<>>, SubSeq(Last.lit, 2, off))
           ELSE result = Ret(unknownContext, <<>>, <<>>)

\* the second path of a grouped import whose first entry has an alias
C9_Witness ==
    /\ Returned
    /\ tokens = <<T("IMPORT"), T("LPAREN"), Id(lit_a), Str(lit_str),
                  T("SEMICOLON"), Str(lit_str)>>
    /\ off = 2
    /\ result = Ret(importContext, <<>>, <<"s">>)

\* C1: `import` followed by the unterminated string "foo/b with the cursor
\* behind the b gives (import, "", "foo/b"); in general an `import` directly
\* before the string under the cursor gives the import tag and the path typed
\* between the opening quote and the cursor.
C1_ImportWhileTyping ==
    /\ (Returned /\ tokens = <<T("IMPORT"), Str(lit_open)>> /\ off = 6)
          => result = Ret(importContext, <<>>, lit_path)
    /\ (Returned /\ Len(tokens) >= 2 /\ Last.tok = "STRING"
            /\ tokens[Len(tokens) - 1].tok = "IMPORT" /\ off < Len(Last.lit))
          => result = Ret(importContext, <<>>, SubSeq(Last.lit, 2, off))

-----------------------------------------------------------------------------
(* deduce_cursor_context_helper with the cursor in an identifier behind a  *)
(* period                                                                  *)

MaxChainLen == 5

SelectAlphabet ==
    {Id(lit_a), Id(lit_b), T("PERIOD"), T("ASSIGN"), T("LPAREN"), T("RPAREN")}

SelectInputs ==
    {s \o <<T("PERIOD"), Id(lit_Ba)>> : s \in Seqs(SelectAlphabet, MaxChainLen)}
        \cup {<<Id(lit_foo), T("PERIOD"), Id(lit_Bar), T("PERIOD"), Id(lit_Ba)>>}

InitSelect == \E toks \in SelectInputs : Deduce(toks)

NextSelect ==
    \/ DeduceStart
    \/ DeducePartial
    \/ DeduceDispatch
    \/ ExprStart
    \/ ExprStep
    \/ ExprResume
    \/ SkipBalancedPair
    \/ SkipToLeft
    \/ SkipStep

SpecSelect == InitSelect /\ [][NextSelect]_vars

\* the tokens at Go indexes k..p-1 of s are identifiers joined by periods
IsChain(s, k, p) ==
    /\ k < p
    /\ (p - k) % 2 = 1
    /\ \A j \in k..(p - 1) :
           s[j + 1].tok = (IF (j - k) % 2 = 0 THEN "IDENT" ELSE "PERIOD")

\* C2: an identifier under the cursor (off <= its length) behind a period
\* gives the select tag, the first off characters of the identifier, and the
\* text extract_go_expr finds when started on that period; for a chain of
\* identifiers joined by periods that starts the buffer or follows a token
\* other than a period, that text is the chain.
C2_SelectContext ==
    LET p == Len(tokens) - 2 IN
    (Returned /\ Len(tokens) >= 2 /\ Last.tok = "IDENT" /\ off <= Len(Last.lit)
        /\ tokens[Len(tokens) - 1].tok = "PERIOD")
        => /\ result.ctx = selectContext
           /\ result.partial = SubSeq(Last.lit, 1, off)
           /\ orig = p
           /\ \E k \in 0..p : result.expr = JoinLiterals(tokens, k, p)
           /\ \A k \in 0..p :
                  (IsChain(tokens, k, p) /\ (k = 0 \/ tokens[k].tok # "PERIOD"))
                      => result.expr = JoinLiterals(tokens, k, p)

\* foo.Bar.Ba with the cursor behind Ba
C2_Witness ==
    /\ Returned
    /\ tokens = <<Id(lit_foo), T("PERIOD"), Id(lit_Bar), T("PERIOD"), Id(lit_Ba)>>
    /\ off = 2
    /\ result = Ret(selectContext, lit_foo \o <<".">> \o lit_Bar, lit_Ba)

-----------------------------------------------------------------------------
(* deduce_cursor_context_helper with the cursor behind a comma or an       *)
(* opening brace                                                           *)

MaxBraceLen == 5

CompositeAlphabet ==
    {Id(lit_a), Id(lit_b), T("PERIOD"), T("LBRACE"), T("RBRACE"), T("COMMA")}

CompositeInputs ==
    {s \o t : s \in Seqs(CompositeAlphabet, MaxBraceLen),
              t \in {<<T("COMMA")>>, <<T("LBRACE")>>,
                     <<T("COMMA"), Id(lit_Y)>>, <<T("LBRACE"), Id(lit_Y)>>}}
        \cup {<<Id(lit_Point), T("LBRACE"), Id(lit_X), T("COLON"),
                IntLit(lit_1), T("COMMA"), Id(lit_Y)>>,
              <<Id(lit_pkg), T("PERIOD"), Id(lit_Point), T("LBRACE")>>,
              <<Id(lit_a), T("PERIOD"), Id(lit_b), T("PERIOD"), Id(lit_C),
                T("LBRACE")>>,
              <<Id(lit_Point), T("LBRACE"), T("TYPE")>>}

InitComposite == \E toks \in CompositeInputs : Deduce(toks)

NextComposite ==
    \/ DeduceStart
    \/ DeducePartial
    \/ DeduceDispatch
    \/ StructStart
    \/ StructRest
    \/ SkipLeftCurly
    \/ SkipToLeft
    \/ SkipStep

SpecComposite == InitComposite /\ [][NextComposite]_vars

\* whether the last token is taken as the partial identifier
HasPartial ==
    /\ Last.tok \in {"IDENT", "TYPE", "CONST", "VAR", "FUNC", "PACKAGE"}
    /\ Last.tok = "IDENT" => off <= Len(Last.lit)

\* the type name before the opening brace at Go index p of s (-1: no brace)
TypeBefore(s, p) ==
    IF p < 1 \/ s[p].tok # "IDENT" THEN <<>>
    ELSE IF p >= 3 /\ s[p - 1].tok = "PERIOD" /\ s[p - 2].tok = "IDENT"
         THEN s[p - 2].lit \o <<".">> \o s[p].lit
         ELSE s[p].lit

\* C3: when the token left after taking the partial identifier away is a
\* comma or an opening brace, the classifier returns the compositeLiteral tag
\* with the type name before the innermost enclosing opening brace: "" when
\* no identifier stands there, otherwise that identifier, qualified by at
\* most one `identifier .` before it.
C3_CompositeLiteral ==
    LET c == IF HasPartial THEN Len(tokens) - 2 ELSE Len(tokens) - 1 IN
    (Returned /\ tokens # <<>> /\ c >= 0 /\ Last.tok # "STRING"
        /\ tokens[c + 1].tok \in {"COMMA", "LBRACE"})
        => /\ result.ctx = compositeLiteralContext
           /\ result.expr = TypeBefore(tokens, EnclosingBrace(tokens, c))
           /\ result.partial = (IF ~HasPartial THEN <<>>
                                ELSE IF Last.tok = "IDENT"
                                     THEN SubSeq(Last.lit, 1, off)
                                     ELSE TokString(Last.tok))

\* Point{X: 1, Y with the cursor behind Y
C3_Witness ==
    /\ Returned
    /\ tokens = <<Id(lit_Point), T("LBRACE"), Id(lit_X), T("COLON"),
                  IntLit(lit_1), T("COMMA"), Id(lit_Y)>>
    /\ off = 1
    /\ result = Ret(compositeLiteralContext, lit_Point, lit_Y)

-----------------------------------------------------------------------------
(* deduce_cursor_context_helper on any token sequence                      *)

\* C4: an identifier under the cursor with off greater than its length gives
\* exactly (unknown, "", ""), whatever precedes it.
C4_WhitespaceSeparated ==
    (Returned /\ tokens # <<>> /\ Last.tok = "IDENT" /\ off > Len(Last.lit))
        => result = Ret(unknownContext, <<>>, <<>>)

\* an identifier behind a period with the cursor after whitespace
C4_Witness ==
    /\ Returned
    /\ tokens = <<Id(lit_a), T("PERIOD"), Id(lit_Ba)>>
    /\ off = 3
    /\ result = Ret(unknownContext, <<>>, <<>>)

IsPrefix(x, y) == Len(x) <= Len(y) /\ SubSeq(y, 1, Len(x)) = x

\* C5: the partial returned is a prefix of the literal of the token under the
\* cursor (for a string: of the text behind its opening quote) and is no
\* longer than off.
C5_PartialBeforeCursor ==
    (Returned /\ tokens # <<>>)
        => /\ Len(result.partial) <= off
           /\ IsPrefix(result.partial,
                       IF Last.tok = "STRING" THEN Tail(Last.lit)
                       ELSE literal(Last))

\* the positions whose next step is an iteration of a backward loop
Loops == {"skip_loop", "expr_loop", "import_loop"}

Tags == {unknownContext, importContext, selectContext, compositeLiteralContext}

SpecFair == Init /\ [][Next]_vars /\ WF_vars(Next)

\* C8: the call ends, with one of the four tags and two strings; the read
\* index never increases, an iteration that stays in its loop decreases it,
\* and wherever a token is read the index is inside the sequence.
C8_Exhaustion ==
    /\ <>(pc = "done")
    /\ [](pc = "done" => /\ result.ctx \in Tags
                         /\ result.expr # Panic
                         /\ result.partial # Panic)
    /\ [](pc \notin {"deduce", "done"} => InRange(token_index))
    /\ [][/\ token_index' <= token_index
          /\ (pc \in Loops /\ pc' \in Loops) => token_index' < token_index
          /\ (pc = "expr_loop" /\ pc' # "done") => token_index' < token_index
         ]_vars

\* a closing parenthesis without an opener has been walked back from
C8_Witness ==
    /\ Returned
    /\ tokens = <<T("RBRACK"), T("RPAREN"), T("PERIOD")>>
    /\ ~ok
    /\ token_index = 0
    /\ result = Ret(selectContext, <<"]", ")">>, <<>>)

=============================================================================
